---- MODULE Spec2Model ----
(***************************************************************************)
(* Escalation signal detection and correlation engine of the DevOps        *)
(* incident suite: agents/root_cause.py and agents/predictive_risk.py.     *)
(*                                                                         *)
(* Python values are represented as follows.                               *)
(*   dict        a function whose DOMAIN is the set of keys present, so    *)
(*               that e.get(k, d) is Get(e, k, d)                          *)
(*   str         a string, read character by character with SubSeq, so     *)
(*               that substring search, lower() and regular expressions    *)
(*               are computed on the characters                            *)
(*   level       a TLA+ string (only ever tested for membership)           *)
(*   timestamp   [ok |-> b, secs |-> s]: the text of a timestamp; ok says   *)
(*               whether it has the shape %Y-%m-%d %H:%M:%S, and secs is   *)
(*               then the instant it denotes, in seconds after a fixed t0  *)
(*   None        the empty sequence <<>>; an optional value v is <<v>>     *)
(***************************************************************************)
EXTENDS Integers, Sequences, FiniteSets, TLC

VARIABLES
    pc,                 \* position of the run being modelled
    log_entries,        \* state["log_entries"], the input batch
    window,             \* the window argument of _build_time_groups
    svc_order,          \* the order in which the set all_services is enumerated
    time_groups,        \* result of _build_time_groups
    cross_refs,         \* result of _find_cross_references
    candidates,         \* result of _merge_candidates
    entries_by_service, \* the per-service partition of the risk stage
    signals,            \* signals emitted by the detectors
    llm_calls,          \* number of llm.invoke calls made by the run
    response,           \* response.content, the reply of the reasoning collaborator
    text,               \* the reply as run parses it: stripped, fences removed
    result              \* what run returned (or the exception that escaped it)

vars == <<pc, log_entries, window, svc_order, time_groups, cross_refs, candidates,
          entries_by_service, signals, llm_calls, response, text, result>>

----------------------------------------------------------------------------
(* Generic helpers *)

\* dict.get(k, d)
Get(e, k, d) == IF k \in DOMAIN e THEN e[k] ELSE d

None == <<>>

Range(s) == {s[i] : i \in DOMAIN s}

SeqsUpTo(S, n) == UNION {[1..k -> S] : k \in 0..n}

Min(a, b) == IF a <= b THEN a ELSE b

\* s[:n]
Take(s, n) == SubSeq(s, 1, Min(n, Len(s)))

\* s[n:] (0-based n)
Drop(s, n) == SubSeq(s, Min(n, Len(s)) + 1, Len(s))

\* s[i:i+1], 1-based: the character at i, "" outside s
At(s, i) == IF i \in 1..Len(s) THEN SubSeq(s, i, i) ELSE ""

\* the lower-case form of each upper-case ASCII letter
LowerOf ==
    [A |-> "a", B |-> "b", C |-> "c", D |-> "d", E |-> "e", F |-> "f", G |-> "g",
     H |-> "h", I |-> "i", J |-> "j", K |-> "k", L |-> "l", M |-> "m", N |-> "n",
     O |-> "o", P |-> "p", Q |-> "q", R |-> "r", S |-> "s", T |-> "t", U |-> "u",
     V |-> "v", W |-> "w", X |-> "x", Y |-> "y", Z |-> "z"]

LowerChar(c) == IF c \in DOMAIN LowerOf THEN LowerOf[c] ELSE c

\* str.lower()
RECURSIVE ToLower(_)
ToLower(s) == IF s = "" THEN "" ELSE LowerChar(Head(s)) \o ToLower(Tail(s))

\* sub in s
Contains(sub, s) ==
    \E i \in 0..(Len(s) - Len(sub)) : SubSeq(s, i + 1, i + Len(sub)) = sub

\* all orders in which a finite set can be enumerated
RECURSIVE Perms(_)
Perms(S) ==
    IF S = {} THEN {<<>>}
    ELSE UNION {{<<x>> \o p : p \in Perms(S \ {x})} : x \in S}

\* the text of a well-formed / malformed timestamp
TsOk(s) == [ok |-> TRUE, secs |-> s]
TsBad == [ok |-> FALSE, secs |-> 0]
\* the default "" of e.get("timestamp", "")
TsEmpty == [ok |-> FALSE, secs |-> -1]

----------------------------------------------------------------------------
(* root_cause.py: _parse_timestamp and _build_time_groups *)

TIME_WINDOW == 60

\* datetime.strptime(ts.strip(), fmt), None on ValueError
_parse_timestamp(ts) == IF ts.ok THEN <<ts.secs>> ELSE None

\* the (dt, e) pairs of the entries whose timestamp parses, in input order
RECURSIVE TimedPairs(_)
TimedPairs(entries) ==
    IF entries = <<>> THEN <<>>
    ELSE LET e == Head(entries)
             dt == _parse_timestamp(Get(e, "timestamp", TsEmpty))
             rest == TimedPairs(Tail(entries))
         IN IF dt # None THEN <<(<<dt[1], e>>)>> \o rest ELSE rest

\* list.sort(key=lambda x: x[0]): stable, ascending by the first component
RECURSIVE InsertByKey(_, _)
InsertByKey(sorted, p) ==
    IF sorted = <<>> THEN <<p>>
    ELSE IF sorted[Len(sorted)][1] <= p[1] THEN Append(sorted, p)
    ELSE Append(InsertByKey(SubSeq(sorted, 1, Len(sorted) - 1), p), sorted[Len(sorted)])

\* a variant that leaves the pairs in input order
SortByKeyUnsorted(pairs) == pairs

RECURSIVE SortByKey(_)
SortByKey(pairs) ==
    IF pairs = <<>> THEN <<>>
    ELSE InsertByKey(SortByKey(SubSeq(pairs, 1, Len(pairs) - 1)), pairs[Len(pairs)])

\* a variant of the grouping loop in which the window slides: the anchor moves
\* to every record that is appended
RECURSIVE TimeGroupLoopSliding(_, _, _, _, _, _)
TimeGroupLoopSliding(timed, i, w, groups, current_group, group_start) ==
    IF i > Len(timed)
    THEN IF Len(current_group) >= 2 THEN Append(groups, current_group) ELSE groups
    ELSE LET dt == timed[i][1]
             entry == timed[i][2]
         IN IF dt - group_start <= w
            THEN TimeGroupLoopSliding(timed, i + 1, w, groups,
                                      Append(current_group, entry), dt)
            ELSE TimeGroupLoopSliding(timed, i + 1, w,
                     IF Len(current_group) >= 2 THEN Append(groups, current_group)
                                                ELSE groups,
                     <<entry>>, dt)

\* the loop over timed[1:] and the closing of the last group
RECURSIVE TimeGroupLoop(_, _, _, _, _, _)
TimeGroupLoop(timed, i, w, groups, current_group, group_start) ==
    IF i > Len(timed)
    THEN IF Len(current_group) >= 2 THEN Append(groups, current_group) ELSE groups
    ELSE LET dt == timed[i][1]
             entry == timed[i][2]
         IN IF dt - group_start <= w
            THEN TimeGroupLoop(timed, i + 1, w, groups,
                               Append(current_group, entry), group_start)
            ELSE TimeGroupLoop(timed, i + 1, w,
                     IF Len(current_group) >= 2 THEN Append(groups, current_group)
                                                ELSE groups,
                     <<entry>>, dt)

_build_time_groups(entries, w) ==
    LET timed == SortByKey(TimedPairs(entries))
    IN IF timed = <<>> THEN <<>>
       ELSE TimeGroupLoop(timed, 2, w, <<>>, <<timed[1][2]>>, timed[1][1])

----------------------------------------------------------------------------
(* Specification SpecTimeGroups: _build_time_groups on bounded inputs *)

MaxTimed == 3

TimedInstants == {0, 50, 110, 130}
TimedStamps == {TsOk(s) : s \in TimedInstants} \cup {TsBad}
Windows == {0, 50, TIME_WINDOW}

\* a batch whose i-th record has line number i
TimedBatches ==
    {[i \in DOMAIN ts |-> [timestamp |-> ts[i], line_number |-> i]] :
        ts \in SeqsUpTo(TimedStamps, MaxTimed)}

Idle ==
    /\ svc_order = <<>>
    /\ time_groups = <<>>
    /\ cross_refs = <<>>
    /\ candidates = <<>>
    /\ entries_by_service = <<>>
    /\ signals = <<>>
    /\ llm_calls = 0
    /\ response = ""
    /\ text = ""
    /\ result = <<>>

InitTimeGroups ==
    /\ pc = "tg_start"
    /\ log_entries \in TimedBatches
    /\ window \in Windows
    /\ Idle

BuildTimeGroups ==
    /\ pc = "tg_start"
    /\ time_groups' = _build_time_groups(log_entries, window)
    /\ pc' = "tg_done"
    /\ UNCHANGED <<log_entries, window, svc_order, cross_refs, candidates,
                   entries_by_service, signals, llm_calls, response, text, result>>

NextTimeGroups == BuildTimeGroups

SpecTimeGroups == InitTimeGroups /\ [][NextTimeGroups]_vars

Instant(e) == e.timestamp.secs

\* C1: every group returned by _build_time_groups has at least 2 members, all
\* with a parsable timestamp, each at most `window` seconds after the group's
\* first member (the anchor, not the previous record); records at t0, t0+50,
\* t0+130 with window 60 give exactly the one group {t0, t0+50}.
C1_TimeGroupsAnchored ==
    pc = "tg_done" =>
        /\ \A g \in Range(time_groups) :
              /\ Len(g) >= 2
              /\ \A i \in DOMAIN g :
                    /\ g[i].timestamp.ok
                    /\ Instant(g[i]) >= Instant(g[1])
                    /\ Instant(g[i]) - Instant(g[1]) <= window
        /\ (/\ window = TIME_WINDOW
            /\ Len(log_entries) = 3
            /\ \A i \in 1..3 : log_entries[i].timestamp = TsOk(<<0, 50, 130>>[i]))
           => time_groups = <<SubSeq(log_entries, 1, 2)>>

\* the run of C1's example: a record 80 s after its predecessor and 130 s after
\* the anchor was left out of the group
C1_Witness ==
    /\ pc = "tg_done"
    /\ window = TIME_WINDOW
    /\ Len(log_entries) = 3
    /\ \A i \in 1..3 : log_entries[i].timestamp = TsOk(<<0, 50, 130>>[i])
    /\ Len(time_groups) = 1

----------------------------------------------------------------------------
(* root_cause.py: _find_cross_references *)

\* An insertion-ordered dict is a sequence of <<key, value>> pairs.
HasKey(d, k) == \E j \in DOMAIN d : d[j][1] = k
KeyIndex(d, k) == CHOOSE j \in DOMAIN d : d[j][1] = k

\* d[k] = v: a new key goes last, an old key keeps its place
DictPut(d, k, v) ==
    IF HasKey(d, k) THEN [d EXCEPT ![KeyIndex(d, k)] = <<k, v>>] ELSE Append(d, <<k, v>>)

\* defaultdict(set): d[k].add(i)
DictAddIndex(d, k, i) ==
    IF HasKey(d, k) THEN [d EXCEPT ![KeyIndex(d, k)] = <<k, d[KeyIndex(d, k)][2] \cup {i}>>]
    ELSE Append(d, <<k, {i}>>)

\* the inner loop `for svc in all_services` for entry i, whose lower-cased
\* message and service are msg and entry_service, from position j of the
\* enumeration
RECURSIVE CrossRefServices(_, _, _, _, _, _)
CrossRefServices(d, i, msg, entry_service, order, j) ==
    IF j > Len(order) THEN d
    ELSE LET svc == ToLower(order[j])
         IN IF svc # entry_service /\ Contains(svc, msg)
            THEN CrossRefServices(DictAddIndex(DictAddIndex(d, svc, i), entry_service, i),
                                  i, msg, entry_service, order, j + 1)
            ELSE CrossRefServices(d, i, msg, entry_service, order, j + 1)

\* the outer loop `for i, entry in enumerate(entries)`
RECURSIVE CrossRefEntries(_, _, _, _)
CrossRefEntries(d, entries, i, order) ==
    IF i > Len(entries) THEN d
    ELSE CrossRefEntries(
             CrossRefServices(d, i, ToLower(Get(entries[i], "message", "")),
                              ToLower(Get(entries[i], "service", "")), order, 1),
             entries, i + 1, order)

\* sorted(cluster_indices)
RECURSIVE SortedIndices(_)
SortedIndices(S) ==
    IF S = {} THEN <<>>
    ELSE LET m == CHOOSE x \in S : \A y \in S : x <= y
         IN <<m>> \o SortedIndices(S \ {m})

\* the loop `for indices in cross_ref_clusters.values()`
RECURSIVE CrossRefClusters(_, _, _, _, _)
CrossRefClusters(d, entries, k, seen, clusters) ==
    IF k > Len(d) THEN clusters
    ELSE LET cluster_indices == d[k][2] \ seen
             idx == SelectSeq(SortedIndices(cluster_indices), LAMBDA i : i <= Len(entries))
             cluster == [n \in DOMAIN idx |-> entries[idx[n]]]
         IN IF Cardinality(cluster_indices) >= 2 /\ Len(cluster) >= 2
            THEN CrossRefClusters(d, entries, k + 1, seen \cup cluster_indices,
                                  Append(clusters, cluster))
            ELSE CrossRefClusters(d, entries, k + 1, seen, clusters)

\* `order` is the order in which the set all_services is enumerated
_find_cross_references(entries, order) ==
    LET cross_ref_clusters == CrossRefEntries(<<>>, entries, 1, order)
    IN IF cross_ref_clusters = <<>> THEN <<>>
       ELSE CrossRefClusters(cross_ref_clusters, entries, 1, {}, <<>>)

----------------------------------------------------------------------------
(* root_cause.py: _merge_candidates *)

\* {e.get("line_number", 0) for e in cluster}
LineNums(cluster) == {Get(cluster[i], "line_number", 0) : i \in DOMAIN cluster}

\* a variant that keeps every entry, under a key of its own
RECURSIVE DictByLineKeepAll(_, _)
DictByLineKeepAll(d, es) ==
    IF es = <<>> THEN d
    ELSE DictByLineKeepAll(Append(d, <<Get(Head(es), "line_number", 0), Head(es)>>),
                           Tail(es))

\* {e.get("line_number", 0): e for e in es}, built on d
RECURSIVE DictByLine(_, _)
DictByLine(d, es) ==
    IF es = <<>> THEN d
    ELSE DictByLine(DictPut(d, Get(Head(es), "line_number", 0), Head(es)), Tail(es))

\* list(merged.values())
Values(d) == [j \in DOMAIN d |-> d[j][2]]
\* set(merged.keys())
Keys(d) == {d[j][1] : j \in DOMAIN d}

\* a variant that appends a candidate whether or not its line set was seen
AddCandidateAlways(st, entries, line_set) ==
    [candidates |-> Append(st.candidates, entries),
     seen_sets |-> Append(st.seen_sets, line_set)]

\* A merge state is [candidates, seen_sets]; seen_sets is a list of sets.
AddCandidate(st, entries, line_set) ==
    IF line_set \in Range(st.seen_sets) THEN st
    ELSE [candidates |-> Append(st.candidates, entries),
          seen_sets |-> Append(st.seen_sets, line_set)]

\* the first loop: cross-ref clusters that overlap a time group in >= 2 lines
RECURSIVE OverlapLoop(_, _, _, _, _)
OverlapLoop(st, tgs, crs, c, t) ==
    IF c > Len(crs) THEN st
    ELSE IF t > Len(tgs) THEN OverlapLoop(st, tgs, crs, c + 1, 1)
    ELSE LET cluster == crs[c]
             tg == tgs[t]
             overlap == LineNums(cluster) \cap LineNums(tg)
             merged == DictByLine(<<>>, cluster \o tg)
         IN IF Cardinality(overlap) >= 2
            THEN OverlapLoop(AddCandidate(st, Values(merged), Keys(merged)),
                             tgs, crs, c, t + 1)
            ELSE OverlapLoop(st, tgs, crs, c, t + 1)

\* the second and third loops: emit each group as it is
RECURSIVE AsIsLoop(_, _)
AsIsLoop(st, groups) ==
    IF groups = <<>> THEN st
    ELSE AsIsLoop(AddCandidate(st, Head(groups), LineNums(Head(groups))), Tail(groups))

\* a variant in which the time groups not yet covered are always added
MergeCandidatesMixed(tgs, crs) ==
    IF tgs = <<>> /\ crs = <<>> THEN <<>>
    ELSE LET s1 == OverlapLoop([candidates |-> <<>>, seen_sets |-> <<>>], tgs, crs, 1, 1)
             s2 == IF s1.candidates = <<>> THEN AsIsLoop(s1, crs) ELSE s1
         IN AsIsLoop(s2, tgs).candidates

_merge_candidates(tgs, crs) ==
    IF tgs = <<>> /\ crs = <<>> THEN <<>>
    ELSE LET s1 == OverlapLoop([candidates |-> <<>>, seen_sets |-> <<>>], tgs, crs, 1, 1)
             s2 == IF s1.candidates = <<>> THEN AsIsLoop(s1, crs) ELSE s1
             s3 == IF s2.candidates = <<>> THEN AsIsLoop(s2, tgs) ELSE s2
         IN s3.candidates

----------------------------------------------------------------------------
(* root_cause.py: run, up to the call of the reasoning collaborator *)

ActionableLevels == {"CRITICAL", "ERROR", "WARN", "WARNING"}

\* a variant of the filter that lets every record through
ActionableUnfiltered(entries) == entries

\* [e for e in log_entries if e.get("level", "") in actionable_levels]
Actionable(entries) ==
    SelectSeq(entries, LAMBDA e : Get(e, "level", "") \in ActionableLevels)

\* {e.get("service", "") for e in log_entries if e.get("service", "")}, less "unknown"
AllServices(entries) ==
    {Get(entries[i], "service", "") : i \in DOMAIN entries} \ {"", "unknown"}

\* a variant of the deterministic part that never returns early
RootCauseGroupingNoEarlyReturn(entries, order) ==
    LET actionable == Actionable(entries)
        tgs == _build_time_groups(actionable, TIME_WINDOW)
        crs == _find_cross_references(actionable, order)
    IN [returned |-> FALSE, time_groups |-> tgs, cross_refs |-> crs,
        candidates |-> _merge_candidates(tgs, crs)]

\* The deterministic part of run: what it has computed when it either returns
\* early or goes on to call the reasoning collaborator.
\*   returned: whether run returned {"causal_chains": []} before any call
RootCauseGrouping(entries, order) ==
    LET actionable == Actionable(entries)
        tgs == _build_time_groups(actionable, TIME_WINDOW)
        crs == _find_cross_references(actionable, order)
        cands == _merge_candidates(tgs, crs)
    IN IF entries = <<>> \/ Len(actionable) < 2
       THEN [returned |-> TRUE, time_groups |-> <<>>, cross_refs |-> <<>>,
             candidates |-> <<>>]
       ELSE [returned |-> cands = <<>>, time_groups |-> tgs, cross_refs |-> crs,
             candidates |-> cands]

EmptyChains == [causal_chains |-> <<>>, current_agent |-> "root_cause"]

\* run of root_cause.py from its entry to the early return or to llm.invoke
RootCauseGroup ==
    /\ pc = "rc_start"
    /\ \E order \in Perms(AllServices(log_entries)) :
          \E g \in {RootCauseGrouping(log_entries, order)} :
             /\ svc_order' = order
             /\ time_groups' = g.time_groups
             /\ cross_refs' = g.cross_refs
             /\ candidates' = g.candidates
             /\ pc' = IF g.returned THEN "rc_done" ELSE "rc_invoke"
             /\ result' = IF g.returned THEN EmptyChains ELSE result
    /\ UNCHANGED <<log_entries, window, entries_by_service, signals, llm_calls, response, text>>

----------------------------------------------------------------------------
(* Specification SpecCorrelate: the grouping and merging of run on bounded  *)
(* batches                                                                  *)

MaxBatch == 5

\* level, service and message of the records of a batch
RecordKinds ==
    { [level |-> "ERROR", service |-> "api", message |-> "db and web timeout"],
      [level |-> "WARN", service |-> "web", message |-> "API error"],
      [level |-> "INFO", service |-> "db", message |-> "api restarted"] }

\* how the records of a batch are stamped, in ingestion order:
\*   rising    25 s apart, in time order
\*   falling   25 s apart, latest first
\*   sparse    100 s apart
\*   burst     all at the same instant
\*   broken    every second record has a timestamp that does not parse
Clocks == {"rising", "falling", "sparse", "burst", "broken"}

StampAt(clock, i, n) ==
    CASE clock = "rising" -> TsOk(25 * (i - 1))
      [] clock = "falling" -> TsOk(25 * (n - i))
      [] clock = "sparse" -> TsOk(100 * (i - 1))
      [] clock = "burst" -> TsOk(0)
      [] OTHER -> IF i % 2 = 1 THEN TsOk(25 * (i - 1)) ELSE TsBad

\* how the records of a batch are numbered: each its own line, pairs of
\* records sharing a line, or no line_number key at all
Numberings == {"own", "paired", "absent"}

NumberedRecord(kind, ts, i, numbering) ==
    LET base == [level |-> kind.level, service |-> kind.service,
                 message |-> kind.message, timestamp |-> ts]
    IN CASE numbering = "own" -> base @@ [line_number |-> i]
         [] numbering = "paired" -> base @@ [line_number |-> (i + 1) \div 2]
         [] OTHER -> base

Batches ==
    {[i \in DOMAIN ks |->
         NumberedRecord(ks[i], StampAt(clock, i, Len(ks)), i, numbering)] :
        ks \in SeqsUpTo(RecordKinds, MaxBatch), clock \in Clocks,
        numbering \in Numberings}

InitCorrelate ==
    /\ pc = "rc_start"
    /\ log_entries \in Batches
    /\ window = TIME_WINDOW
    /\ Idle

NextCorrelate == RootCauseGroup

SpecCorrelate == InitCorrelate /\ [][NextCorrelate]_vars

(* What the claims about the grouping stage speak of *)

\* run has finished its grouping and merging
Grouped == pc \in {"rc_invoke", "rc_normalize", "rc_done"}

LineOf(e) == IF "line_number" \in DOMAIN e THEN e.line_number ELSE 0
LinesOf(g) == {LineOf(g[i]) : i \in DOMAIN g}

\* the (cross-ref cluster, time group) pairs that share at least 2 line numbers
OverlapPairs ==
    {p \in (DOMAIN cross_refs) \X (DOMAIN time_groups) :
        Cardinality(LinesOf(cross_refs[p[1]]) \cap LinesOf(time_groups[p[2]])) >= 2}

Tier1 == OverlapPairs # {}
Tier2 == OverlapPairs = {} /\ cross_refs # <<>>
Tier3 == OverlapPairs = {} /\ cross_refs = <<>>

\* the groups that are the first of their line-number set, in their order
FirstOfEachLineSet(groups) ==
    LET keep == {i \in DOMAIN groups :
                    \A j \in 1..(i - 1) : LinesOf(groups[j]) # LinesOf(groups[i])}
        idx == SortedIndices(keep)
    IN [n \in DOMAIN idx |-> groups[idx[n]]]

\* c is the merge of some overlapping pair: its lines are the union of theirs
\* and its members are records of theirs
IsOverlapMerge(c) ==
    \E p \in OverlapPairs :
        /\ LinesOf(c) = LinesOf(cross_refs[p[1]]) \cup LinesOf(time_groups[p[2]])
        /\ Range(c) \subseteq Range(cross_refs[p[1]]) \cup Range(time_groups[p[2]])

C6_ClusterRecordsActionable ==
    Grouped =>
        \A g \in Range(time_groups) \cup Range(cross_refs) \cup Range(candidates) :
            \A e \in Range(g) :
                /\ e \in Range(log_entries)
                /\ "level" \in DOMAIN e
                /\ e.level \in {"CRITICAL", "ERROR", "WARN", "WARNING"}
                /\ \E a \in Range(log_entries) :
                      /\ a.level \in {"CRITICAL", "ERROR", "WARN", "WARNING"}
                      /\ LineOf(a) = LineOf(e)

\* candidates were built from a batch that also holds a non-actionable record
\* which mentions a known service and is stamped like the others
C6_Witness ==
    /\ Grouped
    /\ candidates # <<>>
    /\ \E e \in Range(log_entries) : e.level = "INFO"

NoSharedLine(c) ==
    \A i, j \in DOMAIN c : i # j => LineOf(c[i]) # LineOf(c[j])

\* C7 as stated: no cluster returned by _merge_candidates has two members
\* with the same line_number, whatever the batch.
C7_NoSharedLineAnyTier ==
    Grouped => \A c \in Range(candidates) : NoSharedLine(c)

\* C7 amended: a cluster of the overlap merge never has two members with the
\* same line_number; a cluster of tier 2 or 3 is an input group as it was, so
\* it has none either when the actionable records of the batch have pairwise
\* different line numbers.
C7_NoSharedLineTier1 ==
    Grouped =>
        /\ Tier1 => \A c \in Range(candidates) : NoSharedLine(c)
        /\ ~Tier1 => \A c \in Range(candidates) :
                        c \in Range(cross_refs) \cup Range(time_groups)
        /\ NoSharedLine(SelectSeq(log_entries,
                                  LAMBDA e : e.level \in {"CRITICAL", "ERROR", "WARN", "WARNING"}))
           => \A c \in Range(candidates) : NoSharedLine(c)

\* an overlap merge over a batch in which records share line numbers
C7_Witness ==
    /\ Grouped
    /\ Tier1
    /\ candidates # <<>>
    /\ ~NoSharedLine(log_entries)
    /\ \E p \in OverlapPairs :
          ~NoSharedLine(cross_refs[p[1]] \o time_groups[p[2]])

Parses(e) == "timestamp" \in DOMAIN e /\ e.timestamp.ok

\* the members of c whose timestamp parses are in ascending order of instant
TimeOrdered(c) ==
    \A i, j \in DOMAIN c :
        (i < j /\ Parses(c[i]) /\ Parses(c[j])) => c[i].timestamp.secs <= c[j].timestamp.secs

\* the actionable records of the batch, in ingestion order
Kept == SelectSeq(log_entries, LAMBDA e : e.level \in {"CRITICAL", "ERROR", "WARN", "WARNING"})

\* c lists some of the actionable records in the order they were ingested
IngestionOrdered(c) ==
    \E S \in SUBSET (DOMAIN Kept) :
        LET idx == SortedIndices(S) IN c = [n \in DOMAIN idx |-> Kept[idx[n]]]

\* C8 as stated: in every returned cluster, of whichever tier, the members
\* whose timestamp parses are in ascending timestamp order.
C8_TimeOrderedAnyTier ==
    Grouped => \A c \in Range(candidates) : TimeOrdered(c)

\* C8 amended: a tier-3 cluster (a time group) has only members whose
\* timestamp parses, in ascending timestamp order; a tier-2 cluster is in
\* ingestion order; a tier-1 cluster over records with pairwise different line
\* numbers is its cross-ref cluster, in ingestion order, followed by the other
\* records of its time group in ascending timestamp order.
C8_OrderByTier ==
    Grouped =>
        /\ Tier3 => \A c \in Range(candidates) :
                       TimeOrdered(c) /\ \A e \in Range(c) : Parses(e)
        /\ Tier2 => \A c \in Range(candidates) : IngestionOrdered(c)
        /\ (Tier1 /\ NoSharedLine(Kept)) =>
              \A c \in Range(candidates) :
                  \E p \in OverlapPairs :
                      LET cl == cross_refs[p[1]]
                          rest == SelectSeq(time_groups[p[2]], LAMBDA e : e \notin Range(cl))
                      IN /\ c = cl \o rest
                         /\ IngestionOrdered(cl)
                         /\ TimeOrdered(rest)

\* time groups were returned as the clusters for a batch that was ingested
\* latest record first
C8_Witness ==
    /\ Grouped
    /\ Tier3
    /\ candidates # <<>>
    /\ \E i, j \in DOMAIN Kept :
          i < j /\ Parses(Kept[i]) /\ Parses(Kept[j])
          /\ Kept[i].timestamp.secs > Kept[j].timestamp.secs
          /\ \E c \in Range(candidates) : Kept[i] \in Range(c) /\ Kept[j] \in Range(c)

\* C9: for every cross-ref cluster and time group that share >= 2 line
\* numbers the candidates hold one whose line-number set is the union of the
\* two; and no two candidates have the same line-number set.
C9_OverlapUnion ==
    Grouped =>
        /\ \A p \in OverlapPairs :
              \E c \in Range(candidates) :
                  LinesOf(c) = LinesOf(cross_refs[p[1]]) \cup LinesOf(time_groups[p[2]])
        /\ \A i, j \in DOMAIN candidates :
              i # j => LinesOf(candidates[i]) # LinesOf(candidates[j])

\* two overlapping pairs have the same union, which is returned once, and the
\* merge added lines to the cross-ref cluster
C9_Witness ==
    /\ Grouped
    /\ \E p, q \in OverlapPairs :
          /\ p # q
          /\ LinesOf(cross_refs[p[1]]) \cup LinesOf(time_groups[p[2]])
               = LinesOf(cross_refs[q[1]]) \cup LinesOf(time_groups[q[2]])
    /\ \E p \in OverlapPairs :
          LinesOf(cross_refs[p[1]]) # LinesOf(cross_refs[p[1]]) \cup LinesOf(time_groups[p[2]])

----------------------------------------------------------------------------
(* predictive_risk.py: _detect_frequency_acceleration *)

\* entries_by_service is an insertion-ordered dict: <<service, entries>> pairs

\* gaps[k] = timestamps[k+1] - timestamps[k], in seconds
Gaps(timestamps) ==
    [k \in 1..(Len(timestamps) - 1) |-> timestamps[k + 1][1] - timestamps[k][1]]

\* a variant that also counts a gap equal to the one before it
DecreasingOrEqual(gaps) ==
    Cardinality({i \in 2..Len(gaps) : gaps[i] <= gaps[i - 1]})

\* sum(1 for i in range(1, len(gaps)) if gaps[i] < gaps[i - 1])
Decreasing(gaps) ==
    Cardinality({i \in 2..Len(gaps) : gaps[i] < gaps[i - 1]})

\* [e.get('message', '')[:80] for _, e in timestamps[-3:]]
LatestMessages(timestamps) ==
    LET last3 == Drop(timestamps, Len(timestamps) - 3)
    IN [k \in DOMAIN last3 |-> Take(Get(last3[k][2], "message", ""), 80)]

\* the signals of one service: none or one
FrequencySignal(service, entries) ==
    LET timestamps == SortByKey(TimedPairs(entries))
        gaps == Gaps(timestamps)
        decreasing == Decreasing(gaps)
    IN IF Len(timestamps) < 3 THEN <<>>
       ELSE IF Len(gaps) >= 2 /\ decreasing >= Len(gaps) \div 2 /\ decreasing >= 1
       THEN <<[service |-> service,
               signal_type |-> "frequency_acceleration",
               evidence |-> [gaps |-> gaps, latest |-> LatestMessages(timestamps)],
               entry_count |-> Len(timestamps)]>>
       ELSE <<>>

RECURSIVE _detect_frequency_acceleration(_)
_detect_frequency_acceleration(ebs) ==
    IF ebs = <<>> THEN <<>>
    ELSE FrequencySignal(Head(ebs)[1], Head(ebs)[2])
         \o _detect_frequency_acceleration(Tail(ebs))

----------------------------------------------------------------------------
(* Specification SpecFrequency: _detect_frequency_acceleration on a bounded *)
(* partition                                                                *)

MaxFreq == 5

FreqStamps == {TsOk(s) : s \in {0, 100, 110, 130, 160, 180}} \cup {TsBad}

EntryNames == <<"e1", "e2", "e3", "e4", "e5", "e6", "e7", "e8">>

\* the entries of service "api": one record per stamp, in ingestion order
FreqEntries ==
    {[i \in DOMAIN ts |-> [level |-> "ERROR", service |-> "api",
                           message |-> EntryNames[i], timestamp |-> ts[i]]] :
        ts \in SeqsUpTo(FreqStamps, MaxFreq) \ {<<>>}}

\* the entries of a second service "db": three records, 40 s and then 20 s
\* apart
OtherEntries ==
    [i \in 1..3 |-> [level |-> "WARN", service |-> "db", message |-> EntryNames[i],
                     timestamp |-> TsOk(<<0, 40, 60>>[i])]]

InitFrequency ==
    /\ pc = "freq_start"
    /\ \E es \in FreqEntries :
          entries_by_service = << <<"db", OtherEntries>>, <<"api", es>> >>
    /\ log_entries = <<>>
    /\ window = TIME_WINDOW
    /\ svc_order = <<>>
    /\ time_groups = <<>>
    /\ cross_refs = <<>>
    /\ candidates = <<>>
    /\ signals = <<>>
    /\ llm_calls = 0
    /\ response = ""
    /\ text = ""
    /\ result = <<>>

DetectFrequency ==
    /\ pc = "freq_start"
    /\ signals' = _detect_frequency_acceleration(entries_by_service)
    /\ pc' = "freq_done"
    /\ UNCHANGED <<log_entries, window, svc_order, time_groups, cross_refs, candidates,
                   entries_by_service, llm_calls, response, text, result>>

NextFrequency == DetectFrequency

SpecFrequency == InitFrequency /\ [][NextFrequency]_vars

\* the entries of a service of the partition
EntriesOf(svc) ==
    entries_by_service[CHOOSE k \in DOMAIN entries_by_service :
                           entries_by_service[k][1] = svc][2]

PartitionKeys == {entries_by_service[k][1] : k \in DOMAIN entries_by_service}

\* the instants of the parsable records of es in ascending order: the record
\* at position i comes after the records that are earlier, and after the
\* equally stamped records ingested before it
SortedInstants(es) ==
    LET P == {i \in DOMAIN es : es[i].timestamp.ok}
        t(i) == es[i].timestamp.secs
        rank(i) == 1 + Cardinality({j \in P : t(j) < t(i) \/ (t(j) = t(i) /\ j < i)})
    IN [k \in 1..Cardinality(P) |-> t(CHOOSE i \in P : rank(i) = k)]

GapsOf(es) ==
    LET T == SortedInstants(es) IN [k \in 1..(Len(T) - 1) |-> T[k + 1] - T[k]]

\* D: the number of gaps strictly smaller than the gap before them
DecreasingOf(es) ==
    LET g == GapsOf(es) IN Cardinality({i \in 2..Len(g) : g[i] < g[i - 1]})

HasFrequencySignal(svc) ==
    \E k \in DOMAIN signals :
        signals[k].service = svc /\ signals[k].signal_type = "frequency_acceleration"

\* C3 as stated: a service with >= 3 parsable records gets a signal iff
\* D >= floor(C / 2) and D >= 1, C being the number of gaps minus one.
C3_HalfOfComparisons ==
    pc = "freq_done" =>
        \A svc \in PartitionKeys :
            Len(SortedInstants(EntriesOf(svc))) >= 3 =>
                (HasFrequencySignal(svc) <=>
                    (/\ DecreasingOf(EntriesOf(svc)) >= (Len(GapsOf(EntriesOf(svc))) - 1) \div 2
                     /\ DecreasingOf(EntriesOf(svc)) >= 1))

\* C3 amended: a service with >= 3 parsable records gets a signal iff
\* D >= floor(G / 2) and D >= 1, G being the number of gaps (one more than the
\* number of comparisons); a service with fewer than 3 parsable records gets
\* none; gaps [100, 60, 20] fire and gaps [10, 20, 30] do not.
C3_HalfOfGaps ==
    pc = "freq_done" =>
        \A svc \in PartitionKeys :
            LET es == EntriesOf(svc) IN
            /\ Len(SortedInstants(es)) >= 3 =>
                  (HasFrequencySignal(svc) <=>
                      (/\ DecreasingOf(es) >= Len(GapsOf(es)) \div 2
                       /\ DecreasingOf(es) >= 1))
            /\ Len(SortedInstants(es)) < 3 => ~HasFrequencySignal(svc)
            /\ GapsOf(es) = <<100, 60, 20>> => HasFrequencySignal(svc)
            /\ GapsOf(es) = <<10, 20, 30>> => ~HasFrequencySignal(svc)
            /\ Cardinality({k \in DOMAIN signals : signals[k].service = svc}) <= 1

\* a service with 4 gaps of which exactly one is smaller than the gap before
\* it (1 of 3 comparisons) got no signal
C3_Witness ==
    /\ pc = "freq_done"
    /\ Len(GapsOf(EntriesOf("api"))) = 4
    /\ DecreasingOf(EntriesOf("api")) = 1
    /\ ~HasFrequencySignal("api")

----------------------------------------------------------------------------
(* predictive_risk.py: KNOWN_PATTERNS and _detect_known_patterns *)

Digits == "0123456789"

\* \d (ASCII)
IsDigit(c) == \E d \in 1..10 : At(Digits, d) = c

\* \s
IsSpace(c) == c \in {" ", "\t", "\n", "\r", "\f"}

DigitValue(c) == (CHOOSE d \in 1..10 : At(Digits, d) = c) - 1

\* int(ds) for a non-empty string of digits
RECURSIVE ParseInt(_)
ParseInt(ds) ==
    IF Len(ds) = 1 THEN DigitValue(ds)
    ELSE 10 * ParseInt(SubSeq(ds, 1, Len(ds) - 1)) + DigitValue(At(ds, Len(ds)))

\* the literal lit stands in s at position i
LitAt(s, i, lit) == i + Len(lit) - 1 <= Len(s) /\ SubSeq(s, i, i + Len(lit) - 1) = lit

\* the position after the longest run of \s from position i
RECURSIVE SkipSpaces(_, _)
SkipSpaces(s, i) == IF i <= Len(s) /\ IsSpace(At(s, i)) THEN SkipSpaces(s, i + 1) ELSE i

\* w1\s*w2 matches in s at position i
WordsAt(s, i, w1, w2) == LitAt(s, i, w1) /\ LitAt(s, SkipSpaces(s, i + Len(w1)), w2)

\* the position after the longest run of \d from position i
RECURSIVE SkipDigits(_, _)
SkipDigits(s, i) == IF i <= Len(s) /\ IsDigit(At(s, i)) THEN SkipDigits(s, i + 1) ELSE i

\* s[i..j] holds no line break (what `.*` can run over)
NoLineBreak(s, i, j) == \A k \in i..j : At(s, k) # "\n"

\* KNOWN_PATTERNS["brute_force"].search(msg), re.IGNORECASE
BruteForceMatches(msg) ==
    LET s == ToLower(msg)
    IN \E i \in 1..Len(s) :
          \/ /\ LitAt(s, i, "failed")
             /\ \E j \in (i + 6)..Len(s) :
                   /\ NoLineBreak(s, i + 6, j - 1)
                   /\ \/ LitAt(s, j, "auth") \/ LitAt(s, j, "login")
                      \/ LitAt(s, j, "credentials")
          \/ WordsAt(s, i, "brute", "force")
          \/ LitAt(s, i, "locked")
          \/ WordsAt(s, i, "failed", "attempts")

\* the ways disk.*(\d+)% matches s from the start i of "disk": .* ends before
\* position j and the digits s[j..k-1] are followed by % at k
DiskMatchEnds(s, i) ==
    {jk \in ((i + 4)..Len(s)) \X ((i + 5)..Len(s)) :
        /\ jk[1] < jk[2]
        /\ NoLineBreak(s, i + 4, jk[1] - 1)
        /\ \A d \in jk[1]..(jk[2] - 1) : IsDigit(At(s, d))
        /\ At(s, jk[2]) = "%"}

\* KNOWN_PATTERNS["disk_critical"].search(msg): group(1) of the match, None
\* without a match. The match starts at the leftmost "disk" from which the
\* pattern can match; .* is greedy, so it runs as far as it can and leaves
\* (\d+) the fewest digits.
DiskGroup(msg) ==
    LET s == ToLower(msg)
        starts == {i \in 1..Len(s) : LitAt(s, i, "disk") /\ DiskMatchEnds(s, i) # {}}
    IN IF starts = {} THEN None
       ELSE LET i == CHOOSE x \in starts : \A y \in starts : x <= y
                ends == DiskMatchEnds(s, i)
                jk == CHOOSE x \in ends : \A y \in ends : x[1] >= y[1]
            IN <<SubSeq(msg, jk[1], jk[2] - 1)>>

\* KNOWN_PATTERNS["pool_exhaustion"].search(msg), re.IGNORECASE
PoolMatches(msg) ==
    LET s == ToLower(msg)
    IN \E i \in 1..Len(s) :
          WordsAt(s, i, "connection", "pool") \/ WordsAt(s, i, "pool", "utilization")

\* KNOWN_PATTERNS["circuit_breaker"].search(msg), re.IGNORECASE
CircuitMatches(msg) ==
    LET s == ToLower(msg)
    IN \E i \in 1..Len(s) :
          \/ WordsAt(s, i, "circuit", "breaker")
          \/ WordsAt(s, i, "retrie", "exhausted")
          \/ WordsAt(s, i, "retries", "exhausted")

\* (\d+)/(\d+) matches s starting at position p
RatioAt(s, p) ==
    /\ p <= Len(s)
    /\ IsDigit(At(s, p))
    /\ LET q == SkipDigits(s, p)
       IN q + 1 <= Len(s) /\ At(s, q) = "/" /\ IsDigit(At(s, q + 1))

\* re.search(r"(\d+)/(\d+)", msg): <<int(group(1)), int(group(2))>> of the
\* leftmost match, None without a match
RatioGroups(msg) ==
    LET starts == {p \in 1..Len(msg) : RatioAt(msg, p)}
    IN IF starts = {} THEN None
       ELSE LET p == CHOOSE x \in starts : \A y \in starts : x <= y
                q == SkipDigits(msg, p)
                r == SkipDigits(msg, q + 1)
            IN <<ParseInt(SubSeq(msg, p, q - 1)), ParseInt(SubSeq(msg, q + 1, r - 1))>>

Message(e) == Get(e, "message", "")

\* the brute_force check of one service
BruteForceSignal(service, entries) ==
    LET auth_failures == SelectSeq(entries, LAMBDA e : BruteForceMatches(Message(e)))
    IN IF Len(auth_failures) >= 3
       THEN <<[service |-> service, signal_type |-> "known_pattern",
               pattern |-> "brute_force",
               evidence |-> [count |-> Len(auth_failures),
                             sample |-> Take(Message(auth_failures[1]), 80)]]>>
       ELSE <<>>

\* the disk_critical scan of one service, from its first entry
RECURSIVE DiskSignal(_, _)
DiskSignal(service, entries) ==
    IF entries = <<>> THEN <<>>
    ELSE LET e == Head(entries)
             disk_match == DiskGroup(Message(e))
         IN IF disk_match # None /\ ParseInt(disk_match[1]) > 80
            THEN <<[service |-> service, signal_type |-> "known_pattern",
                    pattern |-> "disk_critical",
                    evidence |-> [pct |-> ParseInt(disk_match[1]),
                                  entry |-> Take(Message(e), 80)]]>>
            ELSE DiskSignal(service, Tail(entries))

\* a variant of the threshold test that also fires at exactly three quarters
PoolOverInclusive(current, total) == total > 0 /\ 4 * current >= 3 * total

\* total > 0 and (current / total) > 0.75; the quotient of two integers is
\* compared exactly (the float quotient agrees for totals up to 2^52)
PoolOver(current, total) == total > 0 /\ 4 * current > 3 * total

\* the pool_exhaustion scan of one service, from its first entry
RECURSIVE PoolSignal(_, _)
PoolSignal(service, entries) ==
    IF entries = <<>> THEN <<>>
    ELSE LET e == Head(entries)
             ratio_match == IF PoolMatches(Message(e)) THEN RatioGroups(Message(e))
                                                       ELSE None
         IN IF ratio_match # None /\ PoolOver(ratio_match[1], ratio_match[2])
            THEN <<[service |-> service, signal_type |-> "known_pattern",
                    pattern |-> "pool_exhaustion",
                    evidence |-> [current |-> ratio_match[1], total |-> ratio_match[2],
                                  percent |-> (100 * ratio_match[1]) \div ratio_match[2],
                                  entry |-> Take(Message(e), 80)]]>>
            ELSE PoolSignal(service, Tail(entries))

\* the circuit_breaker scan of one service, from its first entry
RECURSIVE CircuitSignal(_, _)
CircuitSignal(service, entries) ==
    IF entries = <<>> THEN <<>>
    ELSE IF CircuitMatches(Message(Head(entries)))
    THEN <<[service |-> service, signal_type |-> "known_pattern",
            pattern |-> "circuit_breaker",
            evidence |-> [entry |-> Take(Message(Head(entries)), 80)]]>>
    ELSE CircuitSignal(service, Tail(entries))

RECURSIVE _detect_known_patterns(_)
_detect_known_patterns(ebs) ==
    IF ebs = <<>> THEN <<>>
    ELSE LET service == Head(ebs)[1]
             entries == Head(ebs)[2]
         IN BruteForceSignal(service, entries) \o DiskSignal(service, entries)
            \o PoolSignal(service, entries) \o CircuitSignal(service, entries)
            \o _detect_known_patterns(Tail(ebs))

DetectKnownPatterns ==
    /\ pc = "kp_start"
    /\ signals' = _detect_known_patterns(entries_by_service)
    /\ pc' = "kp_done"
    /\ UNCHANGED <<log_entries, window, svc_order, time_groups, cross_refs, candidates,
                   entries_by_service, llm_calls, response, text, result>>

NextKnownPatterns == DetectKnownPatterns

\* no run of the root-cause stage, no signals, no reply yet
NoRun ==
    /\ log_entries = <<>>
    /\ window = TIME_WINDOW
    /\ svc_order = <<>>
    /\ time_groups = <<>>
    /\ cross_refs = <<>>
    /\ candidates = <<>>
    /\ signals = <<>>
    /\ llm_calls = 0
    /\ response = ""
    /\ text = ""
    /\ result = <<>>

\* str(n) for n >= 0
RECURSIVE Dec(_)
Dec(n) == IF n < 10 THEN At(Digits, n + 1) ELSE Dec(n \div 10) \o At(Digits, (n % 10) + 1)

Entry(svc, msg) == [level |-> "WARN", service |-> svc, message |-> msg,
                    timestamp |-> TsOk(0)]

----------------------------------------------------------------------------
(* Specification SpecDisk: _detect_known_patterns on the records of one     *)
(* service that report a percentage                                         *)

MaxPercent == 100

PercentMessages ==
    UNION {{"disk at " \o Dec(n) \o "%",
            "Disk usage " \o Dec(n) \o "% on /var",
            "cpu at " \o Dec(n) \o "%"} : n \in 0..MaxPercent}

\* the service's only record, or that record after one that reports nothing
PercentEntries ==
    UNION {{<<Entry("storage", m)>>,
            <<Entry("storage", "disk check started"), Entry("storage", m)>>} :
           m \in PercentMessages}

InitDisk ==
    /\ pc = "kp_start"
    /\ \E es \in PercentEntries : entries_by_service = << <<"storage", es>> >>
    /\ NoRun

SpecDisk == InitDisk /\ [][NextKnownPatterns]_vars

\* the whole number written immediately before the first % that follows
\* "disk" in msg: <<n>>, or None when there is none
WrittenDiskPercent(msg) ==
    LET s == ToLower(msg)
        ks == {k \in 2..Len(s) :
                  /\ At(s, k) = "%"
                  /\ IsDigit(At(s, k - 1))
                  /\ \E i \in 1..(k - 5) : LitAt(s, i, "disk")}
    IN IF ks = {} THEN None
       ELSE LET k == CHOOSE x \in ks : \A y \in ks : x <= y
                j == CHOOSE x \in 1..(k - 1) :
                        /\ \A d \in x..(k - 1) : IsDigit(At(s, d))
                        /\ (x = 1 \/ ~IsDigit(At(s, x - 1)))
            IN <<ParseInt(SubSeq(s, j, k - 1))>>

SignalsOf(svc, pattern) ==
    {k \in DOMAIN signals :
        /\ signals[k].service = svc
        /\ signals[k].signal_type = "known_pattern"
        /\ signals[k].pattern = pattern}

\* C4: a service gets a disk_critical signal iff one of its records reports
\* "disk ... N%" with the whole number N > 80, and the evidence gives that N.
C4_DiskOver80 ==
    pc = "kp_done" =>
        \A svc \in PartitionKeys :
            LET es == EntriesOf(svc)
                over == {i \in DOMAIN es :
                            /\ WrittenDiskPercent(es[i].message) # None
                            /\ WrittenDiskPercent(es[i].message)[1] > 80}
            IN /\ SignalsOf(svc, "disk_critical") # {} <=> over # {}
               /\ \A k \in SignalsOf(svc, "disk_critical") :
                     \E i \in over :
                         signals[k].evidence.pct = WrittenDiskPercent(es[i].message)[1]

----------------------------------------------------------------------------
(* Specification SpecPool: _detect_known_patterns on the records of one     *)
(* service that report ratios                                               *)

MaxPoolEntries == 2

PoolPhrases == {"connection pool ", "Pool utilization ", "queue depth "}

\* what follows the phrase: no, one or two ratios
RatioTexts ==
    {"75/100 connections", "76/100 connections", "3/4 connections",
     "5/0 connections", "exhausted",
     "1/2 nodes, 76/100 connections", "76/100 connections on 1/2 nodes",
     "5/0 nodes, 4/5 connections"}

PoolMessages == {p \o r : p \in PoolPhrases, r \in RatioTexts}

PoolEntries ==
    {[i \in DOMAIN ms |-> Entry("db", ms[i])] :
        ms \in SeqsUpTo(PoolMessages, MaxPoolEntries) \ {<<>>}}

InitPool ==
    /\ pc = "kp_start"
    /\ \E es \in PoolEntries : entries_by_service = << <<"db", es>> >>
    /\ NoRun

SpecPool == InitPool /\ [][NextKnownPatterns]_vars

\* msg holds one of the pool-utilization phrases
NamesPool(msg) ==
    \E ph \in {"connection pool", "connectionpool", "pool utilization", "poolutilization"} :
        Contains(ph, ToLower(msg))

\* the ratios current/total written in msg, each with the position of its
\* slash: whole numbers on both sides of a slash
RatiosIn(msg) ==
    LET n == Len(msg)
        slashes == {q \in 2..(n - 1) :
                       /\ At(msg, q) = "/"
                       /\ IsDigit(At(msg, q - 1))
                       /\ IsDigit(At(msg, q + 1))}
        from(q) == CHOOSE a \in 1..(q - 1) :
                       /\ \A d \in a..(q - 1) : IsDigit(At(msg, d))
                       /\ (a = 1 \/ ~IsDigit(At(msg, a - 1)))
        upto(q) == CHOOSE b \in (q + 1)..n :
                       /\ \A d \in (q + 1)..b : IsDigit(At(msg, d))
                       /\ (b = n \/ ~IsDigit(At(msg, b + 1)))
    IN {<<q, ParseInt(SubSeq(msg, from(q), q - 1)), ParseInt(SubSeq(msg, q + 1, upto(q)))>> :
           q \in slashes}

Over75(r) == r[3] > 0 /\ 4 * r[2] > 3 * r[3]

\* C5 as stated: a service gets a pool_exhaustion signal iff one of its
\* records names the pool and contains a ratio current/total with total > 0
\* and current/total > 0.75.
C5_AnyRatioOver75 ==
    pc = "kp_done" =>
        \A svc \in PartitionKeys :
            SignalsOf(svc, "pool_exhaustion") # {} <=>
                \E e \in Range(EntriesOf(svc)) :
                    NamesPool(e.message) /\ \E r \in RatiosIn(e.message) : Over75(r)

\* C5 amended: a service gets a pool_exhaustion signal (one at most) iff one
\* of its records names the pool and the first ratio current/total of its
\* message has total > 0 and current/total > 0.75, i.e. 4*current > 3*total;
\* 76/100 fires, 75/100 does not, and a first ratio with total = 0 does not
\* fire and does not stop the scan of the records after it.
C5_FirstRatioOver75 ==
    pc = "kp_done" =>
        \A svc \in PartitionKeys :
            LET es == EntriesOf(svc)
                first(m) == CHOOSE r \in RatiosIn(m) : \A o \in RatiosIn(m) : r[1] <= o[1]
                fires(m) == NamesPool(m) /\ RatiosIn(m) # {} /\ Over75(first(m))
            IN /\ SignalsOf(svc, "pool_exhaustion") # {} <=>
                      \E e \in Range(es) : fires(e.message)
               /\ Cardinality(SignalsOf(svc, "pool_exhaustion")) <= 1
               /\ \A k \in SignalsOf(svc, "pool_exhaustion") :
                     \E e \in Range(es) :
                         /\ fires(e.message)
                         /\ signals[k].evidence.current = first(e.message)[2]
                         /\ signals[k].evidence.total = first(e.message)[3]

\* a record whose ratio has total 0 was passed over and the record after it
\* fired
C5_Witness ==
    /\ pc = "kp_done"
    /\ Len(EntriesOf("db")) = 2
    /\ EntriesOf("db")[1].message = "connection pool 5/0 connections"
    /\ EntriesOf("db")[2].message = "connection pool 76/100 connections"
    /\ \E k \in SignalsOf("db", "pool_exhaustion") : signals[k].evidence.current = 76

----------------------------------------------------------------------------
(* predictive_risk.py: NUMERIC_PATTERNS and _detect_numeric_trends *)

\* the names of NUMERIC_PATTERNS in the order of the dict
NumericNames == <<"disk_percent", "latency_ms", "retry_count", "pool_usage", "rate_value">>

\* the least member of a non-empty set of positions
Leftmost(ps) == CHOOSE x \in ps : \A y \in ps : x <= y

\* (\d+)<lit> or (\d+)\s*<lit> at position p of s: the digits run as far as
\* they can, a shorter run is followed by a digit
DigitsThenAt(s, p, spaces, lit) ==
    /\ IsDigit(At(s, p))
    /\ LET q == SkipDigits(s, p)
       IN LitAt(s, IF spaces THEN SkipSpaces(s, q) ELSE q, lit)

\* (\d+)/(\d+)\s*<lit> at position p of s
RatioThenAt(s, p, lit) == RatioAt(s, p) /\ DigitsThenAt(s, SkipDigits(s, p) + 1, TRUE, lit)

\* NUMERIC_PATTERNS[name].search(msg): <<group(1)>> of the leftmost match,
\* None without a match
NumericGroup(name, msg) ==
    LET s == ToLower(msg)
        n == Len(msg)
        starts ==
            CASE name = "disk_percent" -> {p \in 1..n : DigitsThenAt(msg, p, FALSE, "%")}
              [] name = "latency_ms" -> {p \in 1..n : DigitsThenAt(msg, p, TRUE, "ms")}
              [] name = "retry_count" ->
                    {p \in 1..n : LitAt(s, p, "retry") /\ IsDigit(At(s, SkipSpaces(s, p + 5)))}
              [] name = "pool_usage" -> {p \in 1..n : RatioThenAt(s, p, "connection")}
              [] name = "rate_value" -> {p \in 1..n : RatioThenAt(s, p, "req")}
    IN IF starts = {} THEN None
       ELSE LET p == Leftmost(starts)
                a == IF name = "retry_count" THEN SkipSpaces(s, p + 5) ELSE p
            IN <<SubSeq(msg, a, SkipDigits(msg, a) - 1)>>

\* pattern_values[name].append(x) on a defaultdict(list)
DictAppend(d, k, x) ==
    IF HasKey(d, k) THEN [d EXCEPT ![KeyIndex(d, k)] = <<k, Append(d[KeyIndex(d, k)][2], x)>>]
    ELSE Append(d, <<k, <<x>>>>)

\* the loop over NUMERIC_PATTERNS for one entry, from the n-th pattern
RECURSIVE NumericValuesOfEntry(_, _, _)
NumericValuesOfEntry(pattern_values, e, n) ==
    IF n > Len(NumericNames) THEN pattern_values
    ELSE LET match == NumericGroup(NumericNames[n], Message(e))
             ts == Get(e, "timestamp", TsEmpty)
         IN NumericValuesOfEntry(
                IF match # None
                THEN DictAppend(pattern_values, NumericNames[n], <<ts, ParseInt(match[1])>>)
                ELSE pattern_values,
                e, n + 1)

\* the loop over the entries of one service
RECURSIVE NumericValues(_, _)
NumericValues(pattern_values, entries) ==
    IF entries = <<>> THEN pattern_values
    ELSE NumericValues(NumericValuesOfEntry(pattern_values, Head(entries), 1), Tail(entries))

\* the upward-trend test over pattern_values.items(), from the k-th item
RECURSIVE TrendSignals(_, _, _)
TrendSignals(service, pattern_values, k) ==
    IF k > Len(pattern_values) THEN <<>>
    ELSE LET name == pattern_values[k][1]
             values == pattern_values[k][2]
             first_val == values[1][2]
             last_val == values[Len(values)][2]
         IN (IF Len(values) >= 2 /\ last_val > first_val
             THEN <<[service |-> service, signal_type |-> "numeric_trend", metric |-> name,
                     evidence |-> [first_val |-> first_val, last_val |-> last_val,
                                   from |-> values[1][1], to |-> values[Len(values)][1]]]>>
             ELSE <<>>)
            \o TrendSignals(service, pattern_values, k + 1)

RECURSIVE _detect_numeric_trends(_)
_detect_numeric_trends(ebs) ==
    IF ebs = <<>> THEN <<>>
    ELSE TrendSignals(Head(ebs)[1], NumericValues(<<>>, Head(ebs)[2]), 1)
         \o _detect_numeric_trends(Tail(ebs))

----------------------------------------------------------------------------
(* predictive_risk.py: run, from its entry to the early return or to        *)
(* llm.invoke                                                               *)

\* entries_by_service[svc].append(e) for the actionable entries, in the
\* insertion order of the dict
RECURSIVE Partition(_, _)
Partition(ebs, entries) ==
    IF entries = <<>> THEN ebs
    ELSE LET e == Head(entries)
         IN Partition(IF Get(e, "level", "") \in ActionableLevels
                      THEN DictAppend(ebs, Get(e, "service", "unknown"), e)
                      ELSE ebs,
                      Tail(entries))

EmptyPredictions == [risk_predictions |-> <<>>, current_agent |-> "predictive_risk"]

RiskDetect ==
    /\ pc = "pr_start"
    /\ \E ebs \in {Partition(<<>>, log_entries)} :
       \E all_signals \in {_detect_frequency_acceleration(ebs) \o _detect_numeric_trends(ebs)
                           \o _detect_known_patterns(ebs)} :
          /\ entries_by_service' = ebs
          /\ signals' = all_signals
          /\ pc' = IF all_signals = <<>> THEN "pr_done" ELSE "pr_invoke"
          /\ result' = IF all_signals = <<>> THEN EmptyPredictions ELSE result
    /\ UNCHANGED <<log_entries, window, svc_order, time_groups, cross_refs, candidates,
                   llm_calls, response, text>>

----------------------------------------------------------------------------
(* Both stages: the reply of the reasoning collaborator, from                *)
(* response.content to the value json.loads returns                         *)

LowerLetters == {LowerOf[u] : u \in DOMAIN LowerOf}

\* the upper-case form of c
UpperChar(c) ==
    IF c \in LowerLetters THEN CHOOSE u \in DOMAIN LowerOf : LowerOf[u] = c ELSE c

\* str.upper()
RECURSIVE ToUpper(_)
ToUpper(s) == IF s = "" THEN "" ELSE UpperChar(Head(s)) \o ToUpper(Tail(s))

\* \w
IsWord(c) == c \in DOMAIN LowerOf \/ c \in LowerLetters \/ IsDigit(c) \/ c = "_"

\* the position after the longest run of \w from position i
RECURSIVE SkipWord(_, _)
SkipWord(s, i) == IF IsWord(At(s, i)) THEN SkipWord(s, i + 1) ELSE i

RECURSIVE LStrip(_)
LStrip(s) == IF s # "" /\ IsSpace(At(s, 1)) THEN LStrip(Drop(s, 1)) ELSE s

RECURSIVE RStrip(_)
RStrip(s) == IF s # "" /\ IsSpace(At(s, Len(s))) THEN RStrip(Take(s, Len(s) - 1)) ELSE s

\* str.strip()
Strip(s) == RStrip(LStrip(s))

\* The three backticks of a code fence. A string of this notation cannot hold
\* a backtick, so in every text of the model a tilde stands for one.
Fence == "~~~"

\* re.sub(r"^```\w*\n?", "", text) for a text that starts with ```
StripOpeningFence(s) ==
    LET a == SkipWord(s, 4)
    IN Drop(s, IF At(s, a) = "\n" THEN a ELSE a - 1)

\* re.sub(r"\n?```$", "", text); text ends in no line break, so $ is its end
StripClosingFence(s) ==
    IF Len(s) >= 3 /\ SubSeq(s, Len(s) - 2, Len(s)) = Fence
    THEN Take(s, IF At(s, Len(s) - 3) = "\n" THEN Len(s) - 4 ELSE Len(s) - 3)
    ELSE s

\* text = response.content.strip(), less the fences if it starts with ```
StripFences(content) ==
    LET stripped == Strip(content)
    IN IF LitAt(stripped, 1, Fence) THEN StripClosingFence(StripOpeningFence(stripped))
       ELSE stripped

(* JSON values: [t |-> "null"], [t |-> "true"], [t |-> "false"],           *)
(* [t |-> "num", n |-> its text], [t |-> "str", s |-> its characters],      *)
(* [t |-> "arr", a |-> its items], [t |-> "obj", o |-> its <<key, value>>   *)
(* pairs in the order of the dict]                                          *)

Null == [t |-> "null"]
Num(n) == [t |-> "num", n |-> n]
Str(x) == [t |-> "str", s |-> x]
Arr(a) == [t |-> "arr", a |-> a]
Obj(o) == [t |-> "obj", o |-> o]

\* what a scan yields: a value and the position after it, or a JSONDecodeError
Scanned(val, next) == [ok |-> TRUE, val |-> val, next |-> next]
DecodeError == [ok |-> FALSE]

\* the position after the JSON whitespace from position i
RECURSIVE SkipJsonSpace(_, _)
SkipJsonSpace(s, i) ==
    IF At(s, i) \in {" ", "\t", "\n", "\r"} THEN SkipJsonSpace(s, i + 1) ELSE i

\* the characters the escapes \" \\ \/ \b \f \n \r \t stand for; \b has no
\* character here and \uXXXX is not modelled: no reply of the model holds them
Escapes == [n |-> "\n", r |-> "\r", t |-> "\t", f |-> "\f"]

EscapeChar(c) ==
    IF c \in DOMAIN Escapes THEN Escapes[c]
    ELSE IF c \in {"\"", "\\", "/"} THEN c ELSE ""

\* scanstring from position j inside a string literal whose characters so
\* far are acc (strict: a control character ends the scan with an error)
RECURSIVE ScanString(_, _, _)
ScanString(s, j, acc) ==
    LET c == At(s, j)
    IN IF c = "" \/ c \in {"\n", "\r", "\t", "\f"} THEN DecodeError
       ELSE IF c = "\"" THEN Scanned(Str(acc), j + 1)
       ELSE IF c = "\\"
       THEN IF EscapeChar(At(s, j + 1)) = "" THEN DecodeError
            ELSE ScanString(s, j + 2, acc \o EscapeChar(At(s, j + 1)))
       ELSE ScanString(s, j + 1, acc \o c)

\* NUMBER_RE.match at position i: the position after the number, 0 if none.
\* An optional minus, then 0 or a run of digits that starts with 1..9, then
\* an optional fraction (a point and digits), then an optional exponent.
NumberEnd(s, i) ==
    LET a == IF At(s, i) = "-" THEN i + 1 ELSE i
        b == IF At(s, a) = "0" THEN a + 1 ELSE SkipDigits(s, a)
        c == IF At(s, b) = "." /\ IsDigit(At(s, b + 1)) THEN SkipDigits(s, b + 1) ELSE b
        d == IF At(s, c + 1) \in {"+", "-"} THEN c + 2 ELSE c + 1
    IN IF ~IsDigit(At(s, a)) THEN 0
       ELSE IF At(s, c) \in {"e", "E"} /\ IsDigit(At(s, d)) THEN SkipDigits(s, d)
       ELSE c

RECURSIVE ScanValue(_, _)
RECURSIVE ScanElements(_, _, _)
RECURSIVE ScanMembers(_, _, _)

\* the items of an array after the value that starts at position j
ScanElements(s, j, acc) ==
    LET v == ScanValue(s, j)
        k == SkipJsonSpace(s, v.next)
    IN IF ~v.ok THEN DecodeError
       ELSE IF At(s, k) = "]" THEN Scanned(Arr(Append(acc, v.val)), k + 1)
       ELSE IF At(s, k) = "," THEN ScanElements(s, SkipJsonSpace(s, k + 1), Append(acc, v.val))
       ELSE DecodeError

\* the members of an object from the key that starts at position j
ScanMembers(s, j, acc) ==
    IF At(s, j) # "\"" THEN DecodeError
    ELSE LET key == ScanString(s, j + 1, "")
             k == SkipJsonSpace(s, key.next)
             v == ScanValue(s, SkipJsonSpace(s, k + 1))
             m == SkipJsonSpace(s, v.next)
         IN IF ~key.ok THEN DecodeError
            ELSE IF At(s, k) # ":" THEN DecodeError
            ELSE IF ~v.ok THEN DecodeError
            ELSE IF At(s, m) = "}" THEN Scanned(Obj(DictPut(acc, key.val.s, v.val)), m + 1)
            ELSE IF At(s, m) = ","
            THEN ScanMembers(s, SkipJsonSpace(s, m + 1), DictPut(acc, key.val.s, v.val))
            ELSE DecodeError

\* scan_once at position i
ScanValue(s, i) ==
    LET c == At(s, i)
    IN IF c = "\"" THEN ScanString(s, i + 1, "")
       ELSE IF c = "{"
       THEN IF At(s, SkipJsonSpace(s, i + 1)) = "}"
            THEN Scanned(Obj(<<>>), SkipJsonSpace(s, i + 1) + 1)
            ELSE ScanMembers(s, SkipJsonSpace(s, i + 1), <<>>)
       ELSE IF c = "["
       THEN IF At(s, SkipJsonSpace(s, i + 1)) = "]"
            THEN Scanned(Arr(<<>>), SkipJsonSpace(s, i + 1) + 1)
            ELSE ScanElements(s, SkipJsonSpace(s, i + 1), <<>>)
       ELSE IF LitAt(s, i, "null") THEN Scanned(Null, i + 4)
       ELSE IF LitAt(s, i, "true") THEN Scanned([t |-> "true"], i + 4)
       ELSE IF LitAt(s, i, "false") THEN Scanned([t |-> "false"], i + 5)
       ELSE IF NumberEnd(s, i) > 0
       THEN Scanned(Num(SubSeq(s, i, NumberEnd(s, i) - 1)), NumberEnd(s, i))
       ELSE IF LitAt(s, i, "NaN") THEN Scanned(Num("NaN"), i + 3)
       ELSE IF LitAt(s, i, "Infinity") THEN Scanned(Num("Infinity"), i + 8)
       ELSE IF LitAt(s, i, "-Infinity") THEN Scanned(Num("-Infinity"), i + 9)
       ELSE DecodeError

\* json.loads(text): the value, or a JSONDecodeError
JsonLoads(s) ==
    LET v == ScanValue(s, SkipJsonSpace(s, 1))
    IN IF v.ok /\ SkipJsonSpace(s, v.next) = Len(s) + 1 THEN [ok |-> TRUE, val |-> v.val]
       ELSE DecodeError

----------------------------------------------------------------------------
(* Both stages: run from llm.invoke to its return                           *)

\* an exception that escapes run
Raised(exc) == [raised |-> exc]

HasRaised(r) == "raised" \in DOMAIN r

\* the value can be iterated by a for loop and has a len()
Iterable(v) == v.t \in {"arr", "obj", "str"}

\* what `for x in v` yields: the items of a list, the keys of a dict, the
\* characters of a str
Items(v) ==
    IF v.t = "arr" THEN v.a
    ELSE IF v.t = "obj" THEN [i \in DOMAIN v.o |-> Str(v.o[i][1])]
    ELSE [i \in 1..Len(v.s) |-> Str(At(v.s, i))]

\* item.get(k, d) on a dict
JGet(item, k, d) == IF HasKey(item.o, k) THEN item.o[KeyIndex(item.o, k)][2] ELSE d

\* x.upper(), MEDIUM unless it is one of the three levels
LevelOf(x) == IF ToUpper(x) \in {"HIGH", "MEDIUM", "LOW"} THEN ToUpper(x) ELSE "MEDIUM"

\* root_cause.py: the loop `for evt in item.get("chain", [])`
RECURSIVE NormalizeEvents(_, _, _)
NormalizeEvents(evts, k, chain_events) ==
    IF k > Len(evts) THEN [value |-> chain_events]
    ELSE IF evts[k].t # "obj" THEN Raised("AttributeError")
    ELSE NormalizeEvents(evts, k + 1,
            Append(chain_events,
                   [service |-> JGet(evts[k], "service", Str("unknown")),
                    event |-> JGet(evts[k], "event", Str("")),
                    timestamp |-> JGet(evts[k], "timestamp", Str("")),
                    line_number |-> JGet(evts[k], "line_number", Num("0"))]))

\* root_cause.py: the body of `for item in parsed`
NormalizeChain(item) ==
    IF item.t # "obj" THEN Raised("AttributeError")
    ELSE LET confidence == JGet(item, "confidence", Str("MEDIUM"))
             chain == JGet(item, "chain", Arr(<<>>))
             affected == JGet(item, "affected_services", Arr(<<>>))
             chain_events == NormalizeEvents(Items(chain), 1, <<>>)
         IN IF confidence.t # "str" THEN Raised("AttributeError")
            ELSE IF ~Iterable(chain) THEN Raised("TypeError")
            ELSE IF HasRaised(chain_events) THEN chain_events
            ELSE IF ~Iterable(affected) THEN Raised("TypeError")
            ELSE [value |->
                    [chain |-> chain_events.value,
                     root_cause |-> JGet(item, "root_cause", Str("")),
                     blast_radius |-> JGet(item, "blast_radius",
                                           Num(Dec(Len(Items(affected))))),
                     affected_services |-> affected,
                     confidence |-> LevelOf(confidence.s),
                     summary |-> JGet(item, "summary", Str(""))]]

RECURSIVE NormalizeChains(_, _, _)
NormalizeChains(items, k, chains) ==
    IF k > Len(items) THEN [value |-> chains]
    ELSE LET c == NormalizeChain(items[k])
         IN IF HasRaised(c) THEN c
            ELSE NormalizeChains(items, k + 1, Append(chains, c.value))

\* root_cause.py: run from json.loads(text) on
RootCauseOutcome(t) ==
    LET parsed == JsonLoads(t)
        chains == NormalizeChains(Items(parsed.val), 1, <<>>)
    IN IF ~parsed.ok
       THEN [causal_chains |-> <<>>,
             error |-> "Root cause agent returned invalid JSON: " \o Take(t, 200),
             current_agent |-> "root_cause"]
       ELSE IF ~Iterable(parsed.val) THEN Raised("TypeError")
       ELSE IF HasRaised(chains) THEN chains
       ELSE [causal_chains |-> chains.value, current_agent |-> "root_cause"]

\* predictive_risk.py: the body of `for item in parsed`
NormalizePrediction(item) ==
    IF item.t # "obj" THEN Raised("AttributeError")
    ELSE LET risk_level == JGet(item, "risk_level", Str("MEDIUM"))
         IN IF risk_level.t # "str" THEN Raised("AttributeError")
            ELSE [value |->
                    [service |-> JGet(item, "service", Str("unknown")),
                     risk_level |-> LevelOf(risk_level.s),
                     prediction |-> JGet(item, "prediction", Str("")),
                     evidence |-> JGet(item, "evidence", Arr(<<>>)),
                     preventive_action |-> JGet(item, "preventive_action", Str("")),
                     time_horizon |-> JGet(item, "time_horizon", Str("unknown"))]]

RECURSIVE NormalizePredictions(_, _, _)
NormalizePredictions(items, k, predictions) ==
    IF k > Len(items) THEN [value |-> predictions]
    ELSE LET p == NormalizePrediction(items[k])
         IN IF HasRaised(p) THEN p
            ELSE NormalizePredictions(items, k + 1, Append(predictions, p.value))

\* predictive_risk.py: run from json.loads(text) on
RiskOutcome(t) ==
    LET parsed == JsonLoads(t)
        predictions == NormalizePredictions(Items(parsed.val), 1, <<>>)
    IN IF ~parsed.ok
       THEN [risk_predictions |-> <<>>,
             error |-> "Predictive risk agent returned invalid JSON: " \o Take(t, 200),
             current_agent |-> "predictive_risk"]
       ELSE IF ~Iterable(parsed.val) THEN Raised("TypeError")
       ELSE IF HasRaised(predictions) THEN predictions
       ELSE [risk_predictions |-> predictions.value, current_agent |-> "predictive_risk"]

----------------------------------------------------------------------------
(* The replies of the reasoning collaborator                                *)

\* sixteen characters, doubled four times: a reply of 256 characters
LongReply ==
    LET x1 == "no answer today "
        x2 == x1 \o x1
        x4 == x2 \o x2
        x8 == x4 \o x4
    IN x8 \o x8

Replies ==
    { \* JSON arrays of objects, bare and fenced
      "[]", " [] \n", "~~~json\n[]\n~~~", "~~~\n[{}]\n~~~", "~~~json[]~~~", "[{}]",
      "[{\"service\": \"api\", \"risk_level\": \"high\", \"confidence\": \"low\"}]",
      "[{\"chain\": [{\"service\": \"db\"}], \"affected_services\": [\"db\", \"api\"]}]",
      "[{\"risk_level\": 5, \"confidence\": null}]",
      "[{\"risk_level\": \"critical\", \"confidence\": \"critical\"}]",
      "[{\"chain\": 5}]", "[{\"chain\": [1]}]", "[{\"affected_services\": null}]",
      \* text that is not JSON
      "", "not json", "I found: []", "[", "[1,]", "[]\n~~~", "~~~null~~~",
      "{\"a\": 1", LongReply, "~~~json\n" \o LongReply \o "\n~~~",
      \* JSON of another shape
      "{\"a\": 1}", "{}", "5", "null", "true", "\"text\"", "\"\"", "[1, 2]", "[null]",
      "[\"a\"]", "[[]]", "[{\"risk_level\": \"HIGH\", \"confidence\": \"HIGH\"}, 7]",
      "~~~json\n{\"a\": 1}\n~~~", "~~~\n5\n~~~" }

\* root_cause.py: response = llm.invoke([...]) on the candidates
RootCauseInvoke ==
    /\ pc = "rc_invoke"
    /\ \E content \in Replies : response' = content
    /\ llm_calls' = llm_calls + 1
    /\ pc' = "rc_normalize"
    /\ UNCHANGED <<log_entries, window, svc_order, time_groups, cross_refs, candidates,
                   entries_by_service, signals, text, result>>

\* root_cause.py: run from the reply to its return
RootCauseNormalize ==
    /\ pc = "rc_normalize"
    /\ text' = StripFences(response)
    /\ result' = RootCauseOutcome(StripFences(response))
    /\ pc' = "rc_done"
    /\ UNCHANGED <<log_entries, window, svc_order, time_groups, cross_refs, candidates,
                   entries_by_service, signals, llm_calls, response>>

\* predictive_risk.py: response = llm.invoke([...]) on the signals
RiskInvoke ==
    /\ pc = "pr_invoke"
    /\ \E content \in Replies : response' = content
    /\ llm_calls' = llm_calls + 1
    /\ pc' = "pr_normalize"
    /\ UNCHANGED <<log_entries, window, svc_order, time_groups, cross_refs, candidates,
                   entries_by_service, signals, text, result>>

\* predictive_risk.py: run from the reply to its return
RiskNormalize ==
    /\ pc = "pr_normalize"
    /\ text' = StripFences(response)
    /\ result' = RiskOutcome(StripFences(response))
    /\ pc' = "pr_done"
    /\ UNCHANGED <<log_entries, window, svc_order, time_groups, cross_refs, candidates,
                   entries_by_service, signals, llm_calls, response>>

----------------------------------------------------------------------------
(* Specification SpecReply: a run of either stage on a small batch, with    *)
(* every reply of Replies                                                   *)

\* the batches: empty; no actionable record; one actionable record; two
\* actionable records far apart that name no other service; two correlated
\* records of which one matches the circuit_breaker pattern
ReplyBatches ==
    LET r1 == [level |-> "ERROR", service |-> "api", message |-> "db timeout on web",
               timestamp |-> TsOk(0), line_number |-> 1]
        r2 == [level |-> "WARN", service |-> "web", message |-> "retries exhausted",
               timestamp |-> TsOk(10), line_number |-> 2]
        r3 == [level |-> "INFO", service |-> "api", message |-> "restarted",
               timestamp |-> TsOk(20), line_number |-> 3]
        r4 == [level |-> "CRITICAL", service |-> "api", message |-> "request failed",
               timestamp |-> TsOk(200), line_number |-> 4]
    IN {<<>>, <<r3>>, <<r1>>, <<r1, r4>>, <<r1, r2>>, <<r1, r3, r2>>}

InitReply ==
    /\ pc \in {"rc_start", "pr_start"}
    /\ log_entries \in ReplyBatches
    /\ window = TIME_WINDOW
    /\ Idle

NextReply ==
    \/ RootCauseGroup
    \/ RootCauseInvoke
    \/ RootCauseNormalize
    \/ RiskDetect
    \/ RiskInvoke
    \/ RiskNormalize

SpecReply == InitReply /\ [][NextReply]_vars

\* the run has had its reply and has ended
Answered == pc \in {"rc_done", "pr_done"} /\ llm_calls = 1

\* t is the text of a JSON array whose items are all objects
IsArrayOfObjects(t) ==
    LET parsed == JsonLoads(t)
    IN /\ parsed.ok
       /\ parsed.val.t = "arr"
       /\ \A i \in DOMAIN parsed.val.a : parsed.val.a[i].t = "obj"

\* the list run returned under the key of its stage
ReturnedList ==
    IF pc = "rc_done" THEN result.causal_chains ELSE result.risk_predictions

\* C10: for every reply that is not a JSON array of objects, fenced or not,
\* run of either stage lets no exception escape and returns an empty list with
\* a non-empty error message that holds the first 200 characters of the
\* fence-stripped text.
C10_OtherShapeIsError ==
    (Answered /\ ~IsArrayOfObjects(text)) =>
        /\ ~HasRaised(result)
        /\ ReturnedList = <<>>
        /\ "error" \in DOMAIN result
        /\ result.error # ""
        /\ Contains(Take(text, 200), result.error)

\* the items of the array the reply holds
ReplyItems == JsonLoads(text).val.a

\* the defaults of the fields of a returned item, the enumerated field apart
FieldDefaults ==
    IF pc = "rc_done"
    THEN [root_cause |-> Str(""), blast_radius |-> Num("0"),
          affected_services |-> Arr(<<>>), summary |-> Str("")]
    ELSE [service |-> Str("unknown"), prediction |-> Str(""), evidence |-> Arr(<<>>),
          preventive_action |-> Str(""), time_horizon |-> Str("unknown")]

\* the enumerated field of the stage
LevelKey == IF pc = "rc_done" THEN "confidence" ELSE "risk_level"

\* C11: for every reply that is a JSON array of objects, whatever keys its
\* objects hold, normalization does not raise; it returns one item per object,
\* whose enumerated field is one of HIGH, MEDIUM, LOW (the upper-cased input
\* when that is allowed, MEDIUM when it is missing or not allowed) and whose
\* other absent fields take their defaults.
C11_ArrayOfObjectsNormalized ==
    (Answered /\ IsArrayOfObjects(text)) =>
        /\ ~HasRaised(result)
        /\ Len(ReturnedList) = Len(ReplyItems)
        /\ \A i \in DOMAIN ReplyItems :
              LET item == ReplyItems[i]
                  out == ReturnedList[i]
                  given == JGet(item, LevelKey, Null)
                  allowed == given.t = "str" /\ ToUpper(given.s) \in {"HIGH", "MEDIUM", "LOW"}
              IN /\ out[LevelKey] = IF allowed THEN ToUpper(given.s) ELSE "MEDIUM"
                 /\ \A k \in DOMAIN FieldDefaults :
                       ~HasKey(item.o, k) => out[k] = FieldDefaults[k]
                 /\ (pc = "rc_done" /\ ~HasKey(item.o, "chain")) => out.chain = <<>>

\* the run is one of the causal-chain stage
RootCauseRun == pc \in {"rc_start", "rc_invoke", "rc_normalize", "rc_done"}

\* what the deterministic part of the stage has found
Found == IF RootCauseRun THEN candidates ELSE signals

\* the empty result of the stage, with no error entry
EmptyResult == IF RootCauseRun THEN EmptyChains ELSE EmptyPredictions

\* C12: in a run of either stage the collaborator is invoked at most once, and
\* only once the detection or grouping has ended with a non-empty result; a
\* run whose batch is empty, has no actionable record, or yields no signal
\* (risk stage) or no candidate cluster (causal-chain stage) returns the empty
\* list with no error entry and never invokes the collaborator.
C12_InvokedOnceOnFindings ==
    /\ llm_calls \in {0, 1}
    /\ llm_calls = 1 =>
          /\ pc \in {"rc_normalize", "rc_done", "pr_normalize", "pr_done"}
          /\ Found # <<>>
    /\ (/\ pc \in {"rc_done", "pr_done"}
        /\ \/ log_entries = <<>>
           \/ Actionable(log_entries) = <<>>
           \/ Found = <<>>)
       => (llm_calls = 0 /\ result = EmptyResult)

\* a run of the causal-chain stage found two actionable records but no
\* candidate cluster and ended without a call
C12_Witness ==
    /\ pc = "rc_done"
    /\ Len(Actionable(log_entries)) = 2
    /\ candidates = <<>>
    /\ llm_calls = 0
    /\ result = EmptyChains

----------------------------------------------------------------------------
(* Specification SpecPartition: the filter, the partition and the detectors *)
(* of the risk stage on batches whose records differ in level and service   *)

MaxPart == 3

\* level and service of the records of a batch, either key may be absent
PartitionKinds ==
    {[level |-> "CRITICAL", service |-> "api"], [level |-> "ERROR", service |-> ""],
     [level |-> "WARN"], [level |-> "WARNING", service |-> "unknown"],
     [level |-> "ERROR", service |-> "api"], [level |-> "INFO", service |-> ""],
     [level |-> "DEBUG"], [service |-> "api"]}

\* a record of the kind; its message matches the circuit_breaker pattern
PartitionRecord(kind) ==
    LET base == [message |-> "retries exhausted", timestamp |-> TsOk(0)]
    IN [k \in DOMAIN kind \cup DOMAIN base |-> IF k \in DOMAIN kind THEN kind[k] ELSE base[k]]

PartitionBatches ==
    {[i \in DOMAIN ks |-> PartitionRecord(ks[i])] : ks \in SeqsUpTo(PartitionKinds, MaxPart)}

InitPartition ==
    /\ pc = "pr_start"
    /\ log_entries \in PartitionBatches
    /\ window = TIME_WINDOW
    /\ Idle

NextPartition == RiskDetect

SpecPartition == InitPartition /\ [][NextPartition]_vars

\* the key the record belongs under: its service, "unknown" when the service
\* is absent or empty
ServiceKey(e) ==
    IF "service" \in DOMAIN e /\ e.service # "" THEN e.service ELSE "unknown"

\* the record has one of the four actionable levels
KeptLevel(e) == "level" \in DOMAIN e /\ e.level \in {"CRITICAL", "ERROR", "WARN", "WARNING"}

\* C13: the risk stage keeps exactly the records whose level is CRITICAL,
\* ERROR, WARN or WARNING and partitions them by service in batch order, a
\* record whose service is empty or absent going under "unknown"; so no
\* partition key and no signal's service is the empty string.
C13_EmptyServiceUnderUnknown ==
    pc \in {"pr_invoke", "pr_done"} =>
        /\ PartitionKeys = {ServiceKey(log_entries[i]) :
                               i \in {j \in DOMAIN log_entries : KeptLevel(log_entries[j])}}
        /\ \A svc \in PartitionKeys :
              EntriesOf(svc) =
                  SelectSeq(log_entries, LAMBDA e : KeptLevel(e) /\ ServiceKey(e) = svc)
        /\ "" \notin PartitionKeys
        /\ \A k \in DOMAIN signals : signals[k].service # ""

----------------------------------------------------------------------------
(* Reproducibility of the cross-reference clusters *)

\* C14: the clusters _find_cross_references returned are the clusters it
\* returns on the same actionable records and the same set of service names
\* under every other order of enumerating that set.
C14_CrossRefsReproducible ==
    (Grouped /\ Len(Actionable(log_entries)) >= 2) =>
        \A order \in Perms(AllServices(log_entries)) :
            _find_cross_references(Actionable(log_entries), order) = cross_refs

====
